---- MODULE Spec2Model ----
(***************************************************************************)
(* Model of the dump pipeline (Il2CppDumper), of Il2CppImage's memoized    *)
(* getters and of Il2CppAssembly, over a bounded il2cpp VM.                *)
(*                                                                         *)
(* Strings are sequences of tokens, so that string concatenation is \o.    *)
(* An optional value (undefined in the source) is a sequence of length 0   *)
(* or 1: <<>> is undefined, <<v>> is v.                                    *)
(***************************************************************************)
EXTENDS Integers, Sequences, FiniteSets, TLC

VARIABLES vm, cache, vmLog, returned, dumper, lastCall, pc, build, gen, events, file

vars == <<vm, cache, vmLog, returned, dumper, lastCall, pc, build, gen, events, file>>

(***************************************************************************)
(* Bounds of the model.                                                    *)
(***************************************************************************)
\* Size of the VM's global class table in the Image specification.
MaxGlobal == 3
\* Number of times the classes getter of one image is queried.
MaxQueries == 2

\* Type names of the Image specification: two, so that names can collide.
TypeNames == {<<"N1">>, <<"N2">>}

Layouts == {"Legacy", "Current", "Neither"}

\* IL2CPP type-enum value written into the scratch type descriptor.
TypeEnumValue == 32

(***************************************************************************)
(* The VM (native accessor).  Handles are non-null addresses; 0 is NULL.   *)
(* The class at global index g has handle HandleOf(g).                     *)
(***************************************************************************)
HandleOf(g) == 8 * (g + 1)

IndexOf(handle) == (handle \div 8) - 1

ClassOf(handle) == vm.classes[IndexOf(handle) + 1]

imageGetClassCount(a) == vm.images[a].count

imageGetClassStart(a) == vm.images[a].start

imageGetClass(a, i) ==
    IF i >= 0 /\ i < vm.images[a].count THEN HandleOf(vm.images[a].first + i) ELSE 0

typeGetClassOrElementClass(scratch) ==
    IF scratch.typeEnum = TypeEnumValue /\ scratch.index >= 0 /\ scratch.index < Len(vm.classes)
    THEN HandleOf(scratch.index)
    ELSE 0

\* klass.type.name
TypeNameOf(handle) == ClassOf(handle).name

LogEntry(op, arg, enum) == [op |-> op, arg |-> arg, enum |-> enum]

(***************************************************************************)
(* Accessor<T>: an ordered sequence of the values set, with a by-name      *)
(* table in which a later value replaces an earlier one of the same key.   *)
(***************************************************************************)
EmptyAccessor == [seq |-> <<>>, byName |-> <<>>]

AccessorSet(acc, key, value) ==
    [seq |-> Append(acc.seq, value),
     byName |-> [k \in (DOMAIN acc.byName) \cup {key} |->
                    IF k = key THEN value ELSE acc.byName[k]]]

(***************************************************************************)
(* Il2CppImage                                                             *)
(***************************************************************************)
EmptyCache == [classCount |-> <<>>, classStart |-> <<>>, classes |-> <<>>]

\* unityVersion.isLegacy
isLegacy == vm.layout = "Legacy"

\* @cache get classCount
classCount(a, st) ==
    IF st.cache.classCount # <<>>
    THEN [value |-> st.cache.classCount[1], cache |-> st.cache, log |-> st.log]
    ELSE [value |-> imageGetClassCount(a),
          cache |-> [st.cache EXCEPT !.classCount = <<imageGetClassCount(a)>>],
          log |-> Append(st.log, LogEntry("imageGetClassCount", a, 0))]

\* @cache get classStart
classStart(a, st) ==
    IF st.cache.classStart # <<>>
    THEN [value |-> st.cache.classStart[1], cache |-> st.cache, log |-> st.log]
    ELSE [value |-> imageGetClassStart(a),
          cache |-> [st.cache EXCEPT !.classStart = <<imageGetClassStart(a)>>],
          log |-> Append(st.log, LogEntry("imageGetClassStart", a, 0))]

\* for (let i = start; i < end; i++): the values i takes, in order.
IndexRange(start, end) == [k \in 1..(end - start) |-> start + k - 1]

\* accessor[klass.type.name] = klass, keeping the first class of a name.
InsertClassKeepFirst(acc, klass) ==
    IF TypeNameOf(klass) \in DOMAIN acc.byName
    THEN [acc EXCEPT !.seq = Append(@, klass)]
    ELSE AccessorSet(acc, TypeNameOf(klass), klass)

\* accessor[klass.type.name] = klass
InsertClass(acc, klass) == AccessorSet(acc, TypeNameOf(klass), klass)

\* new Il2CppClass(handle): fails on a null handle.
NewClass(lp, handle) ==
    IF handle = 0
    THEN [lp EXCEPT !.ok = FALSE]
    ELSE [lp EXCEPT !.acc = InsertClass(@, handle)]

\* One iteration of the legacy loop.
LegacyIteration(lp, i) ==
    LET scratch == [lp.scratch EXCEPT !.index = i]
        called == [lp EXCEPT !.scratch = scratch,
                      !.log = lp.log \o <<LogEntry("writeInt", i, scratch.typeEnum),
                                          LogEntry("typeGetClassOrElementClass",
                                                   scratch.index, scratch.typeEnum)>>]
    IN NewClass(called, typeGetClassOrElementClass(scratch))

\* One iteration of the current loop.
CurrentIteration(a, lp, i) ==
    NewClass([lp EXCEPT !.log = Append(@, LogEntry("imageGetClass", i, 0))],
             imageGetClass(a, i))

RECURSIVE LegacyLoop(_, _)
LegacyLoop(lp, idxs) ==
    IF idxs = <<>> \/ ~lp.ok THEN lp
    ELSE LegacyLoop(LegacyIteration(lp, Head(idxs)), Tail(idxs))

RECURSIVE CurrentLoop(_, _, _)
CurrentLoop(a, lp, idxs) ==
    IF idxs = <<>> \/ ~lp.ok THEN lp
    ELSE CurrentLoop(a, CurrentIteration(a, lp, Head(idxs)), Tail(idxs))

\* The legacy branch, resolving from index 0 as the current branch does.
LegacyClassesFromZero(a, st) ==
    LET cnt == classCount(a, st)
        lp0 == [ok |-> TRUE, acc |-> EmptyAccessor,
                scratch |-> [typeEnum |-> TypeEnumValue, index |-> 0],
                log |-> cnt.log \o <<LogEntry("alloc", 0, 0),
                                     LogEntry("writeTypeEnum", TypeEnumValue, TypeEnumValue)>>]
        lp == LegacyLoop(lp0, IndexRange(0, cnt.value))
    IN [ok |-> lp.ok, acc |-> lp.acc, cache |-> cnt.cache, log |-> lp.log]

\* The legacy branch of classes.
LegacyClasses(a, st) ==
    LET start == classStart(a, st)
        cnt == classCount(a, [cache |-> start.cache, log |-> start.log])
        end == start.value + cnt.value
        lp0 == [ok |-> TRUE, acc |-> EmptyAccessor,
                scratch |-> [typeEnum |-> TypeEnumValue, index |-> 0],
                log |-> cnt.log \o <<LogEntry("alloc", 0, 0),
                                     LogEntry("writeTypeEnum", TypeEnumValue, TypeEnumValue)>>]
        lp == LegacyLoop(lp0, IndexRange(start.value, end))
    IN [ok |-> lp.ok, acc |-> lp.acc, cache |-> cnt.cache, log |-> lp.log]

\* The current branch of classes.
CurrentClasses(a, st) ==
    LET cnt == classCount(a, st)
        lp0 == [ok |-> TRUE, acc |-> EmptyAccessor,
                scratch |-> [typeEnum |-> 0, index |-> 0], log |-> cnt.log]
        lp == CurrentLoop(a, lp0, IndexRange(0, cnt.value))
    IN [ok |-> lp.ok, acc |-> lp.acc, cache |-> cnt.cache, log |-> lp.log]

\* The classes getter without its memo: every query resolves again.
classesUncached(a, st) ==
    LET r == IF isLegacy THEN LegacyClasses(a, st) ELSE CurrentClasses(a, st)
    IN [ok |-> r.ok, value |-> r.acc, cache |-> r.cache, log |-> r.log]

\* @cache get classes: the stored value, or the computed one, stored when
\* the computation returns normally.
classes(a, st) ==
    IF st.cache.classes # <<>>
    THEN [ok |-> TRUE, value |-> st.cache.classes[1], cache |-> st.cache, log |-> st.log]
    ELSE LET r == IF isLegacy THEN LegacyClasses(a, st) ELSE CurrentClasses(a, st)
         IN [ok |-> r.ok, value |-> r.acc,
             cache |-> IF r.ok THEN [r.cache EXCEPT !.classes = <<r.acc>>] ELSE r.cache,
             log |-> r.log]

ImageState(a) == [cache |-> cache[a], log |-> vmLog]

GetClassCount ==
    /\ pc = "idle"
    /\ \E a \in 1..Len(vm.images) :
         LET r == classCount(a, ImageState(a))
         IN /\ cache' = [cache EXCEPT ![a] = r.cache]
            /\ vmLog' = r.log
    /\ UNCHANGED <<vm, returned, dumper, lastCall, pc, build, gen, events, file>>

GetClassStart ==
    /\ pc = "idle"
    /\ \E a \in 1..Len(vm.images) :
         LET r == classStart(a, ImageState(a))
         IN /\ cache' = [cache EXCEPT ![a] = r.cache]
            /\ vmLog' = r.log
    /\ UNCHANGED <<vm, returned, dumper, lastCall, pc, build, gen, events, file>>

GetClasses ==
    /\ pc = "idle"
    /\ Len(returned) < MaxQueries
    /\ \E a \in 1..Len(vm.images) :
         LET r == classes(a, ImageState(a))
         IN /\ cache' = [cache EXCEPT ![a] = r.cache]
            /\ vmLog' = r.log
            /\ returned' = Append(returned, [image |-> a, ok |-> r.ok, value |-> r.value])
    /\ UNCHANGED <<vm, dumper, lastCall, pc, build, gen, events, file>>

(***************************************************************************)
(* Text                                                                    *)
(***************************************************************************)
Digits == <<"0", "1", "2", "3", "4", "5", "6", "7", "8", "9", "a", "b", "c", "d", "e", "f">>

\* `${n}`: the decimal digits of a non-negative integer.
RECURSIVE Dec(_)
Dec(n) == IF n < 10 THEN <<Digits[n + 1]>> ELSE Dec(n \div 10) \o <<Digits[(n % 10) + 1]>>

\* formatNativePointer: "0x" and eight hexadecimal digits, zero padded.
formatNativePointer(n) == <<"0x">> \o [k \in 1..8 |-> Digits[((n \div (16 ^ (8 - k))) % 16) + 1]]

\* string.replace(".dll", ""): the first occurrence is removed.
StripDll(name) ==
    LET at == {i \in 1..Len(name) : name[i] = ".dll"}
    IN IF at = {} THEN name
       ELSE LET i == CHOOSE x \in at : \A y \in at : x <= y
            IN SubSeq(name, 1, i - 1) \o SubSeq(name, i + 1, Len(name))

(***************************************************************************)
(* Il2CppAssembly                                                          *)
(***************************************************************************)
\* get name
assemblyName(a) == StripDll(vm.images[a].name)

(***************************************************************************)
(* Class and method views                                                  *)
(***************************************************************************)
ClassView(handle) == [handle |-> handle, inflated |-> FALSE, args |-> <<>>]

classIsGeneric(k) == ~k.inflated /\ ClassOf(k.handle).isGeneric

classGenericParameterCount(k) == ClassOf(k.handle).genericParameterCount

classInflateRaw(k, typeArray) == [k EXCEPT !.inflated = TRUE, !.args = typeArray]

\* klass.type.name of a view: an instantiation names its arguments.
classTypeName(k) ==
    IF k.inflated
    THEN ClassOf(k.handle).name \o <<"<">>
            \o [i \in 1..(2 * Len(k.args) - 1) |-> IF i % 2 = 1 THEN k.args[(i + 1) \div 2] ELSE ","]
            \o <<">">>
    ELSE ClassOf(k.handle).name

\* klass.toString()
classToString(k) == <<"class ">> \o classTypeName(k) \o <<" {}", "\n">>

MethodDef(mv) == ClassOf(mv.klass).methods[mv.idx]

\* klass.methods: the methods of an instantiation carry its substitution.
classMethods(k) ==
    [j \in 1..Len(ClassOf(k.handle).methods) |->
        [klass |-> k.handle, idx |-> j, inflated |-> k.inflated]]

methodIsGeneric(mv) == ~mv.inflated /\ MethodDef(mv).isGeneric

methodGenericParameterCount(mv) == MethodDef(mv).genericParameterCount

methodInflateRaw(mv, typeArray) == [mv EXCEPT !.inflated = TRUE]

methodName(mv) == MethodDef(mv).name

virtualAddress(mv) ==
    IF mv.inflated THEN MethodDef(mv).inflatedAddress ELSE MethodDef(mv).virtualAddress

relativeVirtualAddress(mv) == virtualAddress(mv) - vm.base

(***************************************************************************)
(* Il2CppDumper                                                            *)
(***************************************************************************)
Event(kind, a, klass, method, va, text) ==
    [kind |-> kind, asm |-> a, klass |-> klass, method |-> method, va |-> va, text |-> text]

\* static get defaultDirectoryPath
defaultDirectoryPath ==
    IF vm.host.app THEN [ok |-> TRUE, value |-> vm.host.dataPath]
    ELSE [ok |-> FALSE, value |-> <<>>]

\* static get defaultFileName
defaultFileName ==
    IF ~vm.host.app THEN [ok |-> FALSE, value |-> <<>>]
    ELSE IF vm.host.identifier # <<>> /\ vm.host.version # <<>>
         THEN [ok |-> TRUE, value |-> vm.host.identifier[1] \o <<"_">> \o vm.host.version[1]]
         ELSE [ok |-> TRUE, value |-> Dec(vm.host.now)]

\* value || fallback: an empty string counts as unset.
OrDefaultFalsy(value, fallback) ==
    IF value # <<>> /\ value[1] # <<>>
    THEN [ok |-> TRUE, value |-> value[1], evaluated |-> FALSE]
    ELSE [ok |-> fallback.ok, value |-> fallback.value, evaluated |-> TRUE]

\* value ?? fallback: the fallback is evaluated only when value is undefined.
OrDefault(value, fallback) ==
    IF value # <<>>
    THEN [ok |-> TRUE, value |-> value[1], evaluated |-> FALSE]
    ELSE [ok |-> fallback.ok, value |-> fallback.value, evaluated |-> TRUE]

\* getTypeArray
getTypeArray(genericParameterCount) == [i \in 1..genericParameterCount |-> "System.Object"]

\* directoryPath(directoryPath)
directoryPath(d, path) == [d EXCEPT !.directoryPath = <<path>>]

\* fileName(fileName)
fileName(d, name) == [d EXCEPT !.fileName = <<name>>]

\* classes()
dumperClasses(d) ==
    [ok |-> TRUE, dumper |-> [d EXCEPT !.generator = <<"classes">>, !.extension = <<"cs">>]]

\* methods() with the extension stored before System.Type and System.Object
\* are resolved.
dumperMethodsExtensionFirst(d) ==
    IF ~vm.corlib
    THEN [ok |-> FALSE, dumper |-> [d EXCEPT !.extension = <<"ms">>]]
    ELSE [ok |-> TRUE, dumper |-> [d EXCEPT !.generator = <<"methods">>, !.extension = <<"ms">>]]

\* methods()
dumperMethods(d) ==
    IF ~vm.corlib
    THEN [ok |-> FALSE, dumper |-> d]
    ELSE [ok |-> TRUE, dumper |-> [d EXCEPT !.generator = <<"methods">>, !.extension = <<"ms">>]]

\* The progress notice, given only for an assembly that has classes.
classesNoticeIfAny(a) ==
    IF vm.images[a].count = 0 THEN <<>>
    ELSE <<Event("notice", a, 0, 0, 0,
                 <<"Dumping ", "ESC[1m">> \o assemblyName(a) \o <<"ESC[0m", "...">>)>>

\* inform(`Dumping ${assembly.name}...`) of the classes generator
classesNotice(a) ==
    <<Event("notice", a, 0, 0, 0,
            <<"Dumping ", "ESC[1m">> \o assemblyName(a) \o <<"ESC[0m", "...">>)>>

\* inform(`Dumping methods from ${assembly.name}...`) of the methods generator
methodsNotice(a) ==
    <<Event("notice", a, 0, 0, 0,
            <<"Dumping methods from ", "ESC[1m">> \o assemblyName(a) \o <<"ESC[0m", "...">>)>>

\* The inflation test without the test of the method itself.
shouldInflateMethodAny(method, klass) == ~classIsGeneric(klass)

\* method.isGeneric && !klass.isGeneric
shouldInflateMethod(method, klass) == methodIsGeneric(method) /\ ~classIsGeneric(klass)

\* The address test left out: every method gets a line.
hasBodyAlways(method) == TRUE

\* !method.virtualAddress.isNull()
hasBody(method) == virtualAddress(method) # 0

\* `${formatNativePointer(method.relativeVirtualAddress)} ${klass.type.name}.${method.name}\n`
methodLine(method, klass) ==
    formatNativePointer(relativeVirtualAddress(method)) \o <<" ">> \o classTypeName(klass)
        \o <<".">> \o methodName(method) \o <<"\n">>

\* `${directoryPath}/${fileName}.${this.#extension ?? "dump"}`
destinationPath(dir, name, extension) ==
    dir \o <<"/">> \o name \o <<".">> \o (IF extension # <<>> THEN extension ELSE <<"dump">>)

\* Outcomes of one file operation: it succeeds, or, on a faulty disk, may fail.
IoOutcomes == IF vm.disk THEN {TRUE} ELSE BOOLEAN

Configurable == pc = "idle"

DirectoryPath ==
    /\ Configurable
    /\ \E path \in vm.dirs :
         /\ dumper' = directoryPath(dumper, path)
         /\ lastCall' = [op |-> "directoryPath", ok |-> TRUE]
    /\ UNCHANGED <<vm, cache, vmLog, returned, pc, build, gen, events, file>>

FileName ==
    /\ Configurable
    /\ \E name \in vm.files :
         /\ dumper' = fileName(dumper, name)
         /\ lastCall' = [op |-> "fileName", ok |-> TRUE]
    /\ UNCHANGED <<vm, cache, vmLog, returned, pc, build, gen, events, file>>

Classes ==
    /\ Configurable
    /\ dumper' = dumperClasses(dumper).dumper
    /\ lastCall' = [op |-> "classes", ok |-> dumperClasses(dumper).ok]
    /\ UNCHANGED <<vm, cache, vmLog, returned, pc, build, gen, events, file>>

Methods ==
    /\ Configurable
    /\ dumper' = dumperMethods(dumper).dumper
    /\ lastCall' = [op |-> "methods", ok |-> dumperMethods(dumper).ok]
    /\ UNCHANGED <<vm, cache, vmLog, returned, pc, build, gen, events, file>>

\* build(), to the start of its loop over the generator's chunks.
Build ==
    /\ pc = "idle"
    /\ \E io \in IoOutcomes :
         LET dir == OrDefault(dumper.directoryPath, defaultDirectoryPath)
             name == IF dir.ok THEN OrDefault(dumper.fileName, defaultFileName)
                     ELSE [ok |-> FALSE, value |-> <<>>, evaluated |-> FALSE]
             evaluated == (IF dir.evaluated THEN {"directoryPath"} ELSE {})
                            \cup (IF name.evaluated THEN {"fileName"} ELSE {})
             path == destinationPath(dir.value, name.value, dumper.extension)
             opened == dir.ok /\ name.ok /\ io
         IN /\ build' = [started |-> TRUE, evaluated |-> evaluated]
            /\ file' = IF opened
                       THEN [opened |-> TRUE, path |-> path, data |-> <<>>,
                             flushed |-> FALSE, closed |-> FALSE]
                       ELSE file
            /\ events' = IF opened THEN Append(events, Event("open", 0, 0, 0, 0, path)) ELSE events
            /\ IF opened /\ dumper.generator # <<>>
               THEN /\ pc' = "loop"
                    /\ gen' = [kind |-> dumper.generator, at |-> "assemblies", a |-> 1, c |-> 1,
                               m |-> 1, classes |-> <<>>, klass |-> <<>>]
                    /\ UNCHANGED lastCall
               ELSE /\ pc' = "failed"
                    /\ lastCall' = [op |-> "build", ok |-> FALSE]
                    /\ UNCHANGED gen
    /\ UNCHANGED <<vm, cache, vmLog, returned, dumper>>

\* The generator at the head of its loop over the assemblies.
StepAssembly ==
    /\ pc = "loop"
    /\ gen.at = "assemblies"
    /\ IF gen.a > Len(vm.images)
       THEN /\ pc' = "finish"
            /\ UNCHANGED <<cache, vmLog, gen, events, lastCall>>
       ELSE LET r == classes(gen.a, ImageState(gen.a))
                notice == IF gen.kind = <<"classes">> THEN classesNotice(gen.a)
                          ELSE methodsNotice(gen.a)
            IN /\ events' = events \o notice
               /\ cache' = [cache EXCEPT ![gen.a] = r.cache]
               /\ vmLog' = r.log
               /\ IF r.ok
                  THEN /\ gen' = [gen EXCEPT !.at = "classes", !.c = 1, !.classes = r.value.seq]
                       /\ UNCHANGED <<pc, lastCall>>
                  ELSE /\ pc' = "failed"
                       /\ lastCall' = [op |-> "build", ok |-> FALSE]
                       /\ UNCHANGED gen
    /\ UNCHANGED <<vm, returned, dumper, build, file>>

\* The generator at the head of its loop over the classes of an image.
StepClass ==
    /\ pc = "loop"
    /\ gen.at = "classes"
    /\ IF gen.c > Len(gen.classes)
       THEN /\ gen' = [gen EXCEPT !.at = "assemblies", !.a = @ + 1, !.classes = <<>>]
            /\ UNCHANGED <<pc, events, file, lastCall>>
       ELSE LET enumerated == ClassView(gen.classes[gen.c])
            IN IF gen.kind = <<"classes">>
               THEN \E io \in IoOutcomes :
                      LET chunk == classToString(enumerated)
                      IN /\ events' = Append(events, Event("yield", gen.a, enumerated.handle, 0, 0, chunk))
                         /\ IF io
                            THEN /\ file' = [file EXCEPT !.data = Append(@, chunk)]
                                 /\ gen' = [gen EXCEPT !.c = @ + 1]
                                 /\ UNCHANGED <<pc, lastCall>>
                            ELSE /\ pc' = "failed"
                                 /\ lastCall' = [op |-> "build", ok |-> FALSE]
                                 /\ UNCHANGED <<gen, file>>
               ELSE LET generic == classIsGeneric(enumerated)
                        klass == IF generic
                                 THEN classInflateRaw(enumerated,
                                          getTypeArray(classGenericParameterCount(enumerated)))
                                 ELSE enumerated
                    IN /\ gen' = [gen EXCEPT !.at = "methods", !.m = 1, !.klass = <<klass>>]
                       /\ events' = IF generic
                                    THEN Append(events, Event("inflateClass", gen.a, klass.handle, 0, 0, <<>>))
                                    ELSE events
                       /\ UNCHANGED <<pc, file, lastCall>>
    /\ UNCHANGED <<vm, cache, vmLog, returned, dumper, build>>

\* The methods generator at the head of its loop over the methods of a class.
StepMethod ==
    /\ pc = "loop"
    /\ gen.at = "methods"
    /\ IF gen.m > Len(classMethods(gen.klass[1]))
       THEN /\ gen' = [gen EXCEPT !.at = "classes", !.c = @ + 1, !.klass = <<>>]
            /\ UNCHANGED <<pc, events, file, lastCall>>
       ELSE \E io \in IoOutcomes :
              LET klass == gen.klass[1]
                  enumerated == classMethods(klass)[gen.m]
                  inflate == shouldInflateMethod(enumerated, klass)
                  method == IF inflate
                            THEN methodInflateRaw(enumerated,
                                     getTypeArray(methodGenericParameterCount(enumerated)))
                            ELSE enumerated
                  line == methodLine(method, klass)
                  visit == (IF inflate
                            THEN <<Event("inflateMethod", gen.a, klass.handle, gen.m, 0, <<>>)>>
                            ELSE <<>>)
                           \o <<Event("method", gen.a, klass.handle, gen.m, virtualAddress(method),
                                      classTypeName(klass) \o <<".">> \o methodName(method))>>
              IN IF ~hasBody(method)
                 THEN /\ events' = events \o visit
                      /\ gen' = [gen EXCEPT !.m = @ + 1]
                      /\ UNCHANGED <<pc, file, lastCall>>
                 ELSE /\ events' = (events \o visit)
                                      \o <<Event("yield", gen.a, klass.handle, gen.m, 0, line)>>
                      /\ IF io
                         THEN /\ file' = [file EXCEPT !.data = Append(@, line)]
                              /\ gen' = [gen EXCEPT !.m = @ + 1]
                              /\ UNCHANGED <<pc, lastCall>>
                         ELSE /\ pc' = "failed"
                              /\ lastCall' = [op |-> "build", ok |-> FALSE]
                              /\ UNCHANGED <<gen, file>>
    /\ UNCHANGED <<vm, cache, vmLog, returned, dumper, build>>

\* build() after its loop: flush, close and the success notice.
Finish ==
    /\ pc = "finish"
    /\ \E io \in IoOutcomes :
         IF io
         THEN /\ file' = [file EXCEPT !.flushed = TRUE, !.closed = TRUE]
              /\ events' = events \o <<Event("flush", 0, 0, 0, 0, <<>>),
                                       Event("close", 0, 0, 0, 0, <<>>),
                                       Event("ok", 0, 0, 0, 0,
                                             <<"Dump saved to ">> \o file.path \o <<".">>)>>
              /\ pc' = "done"
              /\ lastCall' = [op |-> "build", ok |-> TRUE]
         ELSE /\ pc' = "failed"
              /\ lastCall' = [op |-> "build", ok |-> FALSE]
              /\ UNCHANGED <<file, events>>
    /\ UNCHANGED <<vm, cache, vmLog, returned, dumper, build, gen>>

(***************************************************************************)
(* Initial states                                                          *)
(***************************************************************************)
\* Bound of the dump specification: the assemblies, classes and methods of the
\* VM, counted together.
MaxSize == 6

NoHost == [app |-> FALSE, dataPath |-> <<>>, identifier |-> <<>>, version |-> <<>>, now |-> 0]

NewDumper == [directoryPath |-> <<>>, fileName |-> <<>>, extension |-> <<>>, generator |-> <<>>]

NoBuild == [started |-> FALSE, evaluated |-> {}]

NoGen == [kind |-> <<>>, at |-> "assemblies", a |-> 1, c |-> 1, m |-> 1, classes |-> <<>>, klass |-> <<>>]

ClosedFile == [opened |-> FALSE, path |-> <<>>, data |-> <<>>, flushed |-> FALSE, closed |-> FALSE]

PlainClass(name) == [name |-> name, isGeneric |-> FALSE, genericParameterCount |-> 0, methods |-> <<>>]

Windows(n, layout) ==
    {[first |-> w[1], count |-> w[2], start |-> w[3], name |-> <<"A", ".dll">>] :
        w \in {w \in (0..n) \X (0..n) \X (0..n) :
                  /\ w[1] + w[2] <= n
                  /\ w[3] \in (IF layout = "Legacy" THEN {w[1]} ELSE {0, w[1]})}}

Fresh(n) ==
    /\ cache = [a \in 1..n |-> EmptyCache]
    /\ vmLog = <<>>
    /\ returned = <<>>
    /\ dumper = NewDumper
    /\ lastCall = [op |-> "new", ok |-> TRUE]
    /\ pc = "idle"
    /\ build = NoBuild
    /\ gen = NoGen
    /\ events = <<>>
    /\ file = ClosedFile

InitImage ==
    /\ \E layout \in Layouts, names \in [1..MaxGlobal -> TypeNames] :
         \E w \in Windows(MaxGlobal, layout) :
            vm = [layout |-> layout,
                  classes |-> [g \in 1..MaxGlobal |-> PlainClass(names[g])],
                  images |-> <<w>>,
                  base |-> 0, host |-> NoHost, corlib |-> TRUE, disk |-> TRUE,
                  dirs |-> {}, files |-> {}]
    /\ Fresh(1)

NextImage == GetClassCount \/ GetClassStart \/ GetClasses

SpecImage == InitImage /\ [][NextImage]_vars

\* The images of a domain whose assemblies own counts[1], counts[2], ... classes,
\* one after the other in the global class table.
RECURSIVE SumTo(_, _)
SumTo(counts, n) == IF n = 0 THEN 0 ELSE SumTo(counts, n - 1) + counts[n]

ImagesOf(counts, layout) ==
    [a \in 1..Len(counts) |->
        [first |-> SumTo(counts, a - 1), count |-> counts[a],
         start |-> IF layout = "Legacy" THEN SumTo(counts, a - 1) ELSE 0,
         name |-> <<"Asm">> \o Dec(a) \o <<".dll">>]]

ModuleBase == 16 * 4096

\* A method: generic or not, with a compiled body or not.  An open generic
\* definition has no code of its own; its instantiation has, when there is a body.
MethodOf(g, j, generic, body, classGeneric) ==
    [name |-> <<"M">> \o Dec(j),
     isGeneric |-> generic,
     genericParameterCount |-> IF generic THEN 1 ELSE 0,
     virtualAddress |-> IF body /\ ~generic /\ ~classGeneric THEN ModuleBase + 256 * g + 16 * j ELSE 0,
     inflatedAddress |-> IF body /\ (generic \/ classGeneric) THEN ModuleBase + 256 * g + 16 * j + 8 ELSE 0]

MethodKinds == [generic : BOOLEAN, body : BOOLEAN]

\* The class table in which class g is generic when gens[g] and has mcounts[g]
\* methods, whose kinds are taken in order from kinds.
ClassTable(gens, mcounts, kinds) ==
    [g \in 1..Len(gens) |->
        [name |-> <<"C">> \o Dec(g),
         isGeneric |-> gens[g],
         genericParameterCount |-> IF gens[g] THEN 1 + (g % 2) ELSE 0,
         methods |-> [j \in 1..mcounts[g] |->
                        MethodOf(g, j, kinds[SumTo(mcounts, g - 1) + j].generic,
                                 kinds[SumTo(mcounts, g - 1) + j].body, gens[g])]]]

AppHost == [app |-> TRUE, dataPath |-> <<"/data">>, identifier |-> <<<<"com.x.y">>>>,
            version |-> <<<<"1.0">>>>, now |-> 0]

InitDump ==
    /\ \E na \in 0..MaxSize :
         \E counts \in [1..na -> 0..(MaxSize - na)] :
            LET nc == SumTo(counts, na)
            IN /\ na + nc <= MaxSize
               /\ \E mcounts \in [1..nc -> 0..(MaxSize - na - nc)] :
                    LET nm == SumTo(mcounts, nc)
                    IN /\ na + nc + nm <= MaxSize
                       /\ \E gens \in [1..nc -> BOOLEAN], kinds \in [1..nm -> MethodKinds],
                             layout \in {"Legacy", "Current"} :
                            vm = [layout |-> layout,
                                  classes |-> ClassTable(gens, mcounts, kinds),
                                  images |-> ImagesOf(counts, layout),
                                  base |-> ModuleBase, host |-> AppHost, corlib |-> TRUE,
                                  disk |-> TRUE, dirs |-> {}, files |-> {}]
                       /\ Fresh(na)

NextDump == Classes \/ Methods \/ Build \/ StepAssembly \/ StepClass \/ StepMethod \/ Finish

SpecDump == InitDump /\ [][NextDump]_vars

\* The builder specification: a small domain (one assembly, one class, one
\* compiled method; with corrupt, the image claims a class the global table
\* does not hold), every host, corlib and disk condition, and configured
\* directories and names that include the empty string.
Timestamps == {905, 1234}

Hosts ==
    {NoHost} \cup
    [app : {TRUE}, dataPath : {<<"/data">>}, identifier : {<<>>, <<<<"com.x.y">>>>},
     version : {<<>>, <<<<"1.0">>>>}, now : Timestamps]

InitBuilder ==
    /\ \E host \in Hosts, corlib \in BOOLEAN, disk \in BOOLEAN, corrupt \in BOOLEAN :
         vm = [layout |-> "Legacy",
               classes |-> <<[name |-> <<"C1">>, isGeneric |-> FALSE, genericParameterCount |-> 0,
                              methods |-> <<MethodOf(1, 1, FALSE, TRUE, FALSE)>>]>>,
               images |-> <<[first |-> 0, count |-> IF corrupt THEN 2 ELSE 1, start |-> 0,
                             name |-> <<"Asm1", ".dll">>]>>,
               base |-> ModuleBase, host |-> host, corlib |-> corlib, disk |-> disk,
               dirs |-> {<<>>, <<"/sdcard">>}, files |-> {<<>>, <<"out">>}]
    /\ Fresh(1)

NextBuilder ==
    \/ DirectoryPath
    \/ FileName
    \/ Classes
    \/ Methods
    \/ Build
    \/ StepAssembly
    \/ StepClass
    \/ StepMethod
    \/ Finish

SpecBuilder == InitBuilder /\ [][NextBuilder]_vars

(***************************************************************************)
(* Properties of Il2CppImage.classes (specification SpecImage, one image)  *)
(***************************************************************************)
Calls(op) == SelectSeq(vmLog, LAMBDA e : e.op = op)

\* Global indices of the classes the image owns.
Window(a) == vm.images[a].first .. (vm.images[a].first + vm.images[a].count - 1)

\* C4: under the Current layout every query of classes returns the classCount
\* views of the VM's classes 0..classCount-1 of the image, in index order and
\* pairwise distinct; a later query returns what the first did, and the VM was
\* asked for each class once, however many queries were made.
C4_CurrentClasses ==
    vm.layout = "Current" =>
        /\ \A q \in 1..Len(returned) :
              LET r == returned[q]
                  img == vm.images[r.image]
              IN /\ r.ok
                 /\ Len(r.value.seq) = img.count
                 /\ \A i \in 1..img.count : r.value.seq[i] = HandleOf(img.first + i - 1)
                 /\ Cardinality({r.value.seq[i] : i \in 1..Len(r.value.seq)}) = img.count
                 /\ r.value = returned[1].value
        /\ returned # <<>> =>
              /\ Len(Calls("imageGetClass")) = vm.images[1].count
              /\ \A i \in 1..vm.images[1].count : Calls("imageGetClass")[i].arg = i - 1

C4_Witness ==
    /\ vm.layout = "Current"
    /\ vm.images[1].count >= 2
    /\ vm.images[1].first > 0
    /\ Len(returned) >= 2

\* C5: under the Legacy layout, once classes was queried, the VM was asked to
\* resolve exactly the global indices S, S+1, ..., S+C-1, once each and in that
\* order, each after that index was written into the scratch descriptor, whose
\* type-enum field was written once, before the first index; with C = 0 nothing
\* is resolved, and before any query nothing is.
C5_LegacyResolution ==
    vm.layout = "Legacy" =>
        LET img == vm.images[1]
            resolved == Calls("typeGetClassOrElementClass")
            enumWrites == {k \in 1..Len(vmLog) : vmLog[k].op = "writeTypeEnum"}
        IN /\ returned = <<>> => resolved = <<>> /\ enumWrites = {}
           /\ Calls("imageGetClass") = <<>>
           /\ returned # <<>> =>
                /\ Len(resolved) = img.count
                /\ \A i \in 1..Len(resolved) :
                      /\ resolved[i].arg = img.start + i - 1
                      /\ resolved[i].enum = TypeEnumValue
                /\ Cardinality(enumWrites) = 1
                /\ \A k \in 1..Len(vmLog) :
                      /\ vmLog[k].op \in {"writeInt", "typeGetClassOrElementClass"} =>
                            \E w \in enumWrites : w < k
                      /\ vmLog[k].op = "typeGetClassOrElementClass" =>
                            /\ vmLog[k - 1].op = "writeInt"
                            /\ vmLog[k - 1].arg = vmLog[k].arg

C5_Witness ==
    /\ vm.layout = "Legacy"
    /\ vm.images[1].start > 0
    /\ vm.images[1].count >= 2
    /\ returned # <<>>
    /\ Len(Calls("typeGetClassOrElementClass")) >= 2

\* C6: in the by-name table that classes returns, every type name of a class of
\* the image maps to the class of the highest index bearing that name, no other
\* name is in the table, and so a class whose name a later class also bears is
\* not in the table.
C6_LastWriteWins ==
    \A q \in 1..Len(returned) :
        LET r == returned[q]
            w == Window(r.image)
            table == r.value.byName
            Bearing(n) == {g \in w : vm.classes[g + 1].name = n}
            Latest(n) == CHOOSE g \in Bearing(n) : \A h \in Bearing(n) : h <= g
        IN /\ r.ok
           /\ DOMAIN table = {vm.classes[g + 1].name : g \in w}
           /\ \A n \in DOMAIN table : table[n] = HandleOf(Latest(n))
           /\ \A g \in w : (\E h \in w : h > g /\ vm.classes[h + 1].name = vm.classes[g + 1].name)
                              => \A n \in DOMAIN table : table[n] # HandleOf(g)

C6_Witness ==
    /\ returned # <<>>
    /\ \E g, h \in Window(1) :
          /\ g < h
          /\ vm.classes[g + 1].name = vm.classes[h + 1].name
          /\ returned[1].value.byName[vm.classes[g + 1].name] = HandleOf(h)
    /\ \E g \in Window(1) : \A h \in Window(1) \ {g} : vm.classes[h + 1].name # vm.classes[g + 1].name

\* C9: when the detected version maps to neither Legacy nor Current, every query
\* of classes fails and the VM is asked to resolve no class by either strategy.
C9_UnsupportedLayoutFails ==
    vm.layout = "Neither" =>
        /\ \A q \in 1..Len(returned) : ~returned[q].ok
        /\ Calls("imageGetClass") = <<>>
        /\ Calls("typeGetClassOrElementClass") = <<>>

(***************************************************************************)
(* Properties of the dumps (specification SpecDump)                        *)
(***************************************************************************)
Of(kinds) == SelectSeq(events, LAMBDA e : e.kind \in kinds)

Project(es) == [k \in 1..Len(es) |-> <<es[k].kind, es[k].asm, es[k].klass, es[k].method>>]

IsPrefix(s, t) == Len(s) <= Len(t) /\ s = SubSeq(t, 1, Len(s))

\* The notices and chunks of a classes dump of the first n assemblies: for each
\* assembly in Domain order its notice, then one chunk per class of its image
\* in index order.
RECURSIVE ExpectedClassesDump(_)
ExpectedClassesDump(n) ==
    IF n = 0 THEN <<>>
    ELSE ExpectedClassesDump(n - 1) \o <<<<"notice", n, 0, 0>>>>
            \o [i \in 1..vm.images[n].count |-> <<"yield", n, HandleOf(vm.images[n].first + i - 1), 0>>]

\* C3: in the classes dump the notices and chunks produced so far are an initial
\* part of: for each assembly in Domain order, one notice and then one chunk
\* per class of its image in class order, and are all of it once the traversal
\* has ended; a chunk is the string form of its class, and the file holds the
\* chunks produced, in order.
C3_ClassesDumpOrder ==
    gen.kind = <<"classes">> =>
        LET out == Of({"notice", "yield"})
            chunks == Of({"yield"})
        IN /\ IsPrefix(Project(out), ExpectedClassesDump(Len(vm.images)))
           /\ pc \in {"finish", "done"} => Project(out) = ExpectedClassesDump(Len(vm.images))
           /\ \A k \in 1..Len(chunks) : chunks[k].text = classToString(ClassView(chunks[k].klass))
           /\ file.data = [k \in 1..Len(chunks) |-> chunks[k].text]
           /\ \A k \in 1..Len(out) :
                 out[k].kind = "notice" =>
                    out[k].text = <<"Dumping ", "ESC[1m", "Asm">> \o Dec(out[k].asm) \o <<"ESC[0m", "...">>

C3_Witness ==
    /\ gen.kind = <<"classes">>
    /\ pc = "done"
    /\ \E a, b, c \in 1..Len(vm.images) :
          /\ a < b /\ b < c
          /\ vm.images[a].count >= 1
          /\ vm.images[b].count = 0
          /\ vm.images[c].count >= 1
    /\ Len(file.data) = 2

HexDigits == {Digits[i] : i \in 1..16}

DigitValue(d) == (CHOOSE i \in 1..16 : Digits[i] = d) - 1

RECURSIVE HexValue(_)
HexValue(ds) ==
    IF ds = <<>> THEN 0 ELSE 16 * HexValue(SubSeq(ds, 1, Len(ds) - 1)) + DigitValue(ds[Len(ds)])

\* The methods the methods dump visits among the first n assemblies, as
\* <<assembly, class handle, method index>>, in traversal order.
RECURSIVE MethodsOfClasses(_, _, _)
MethodsOfClasses(a, first, count) ==
    IF count = 0 THEN <<>>
    ELSE MethodsOfClasses(a, first, count - 1)
            \o [j \in 1..Len(vm.classes[first + count].methods) |->
                    <<"method", a, HandleOf(first + count - 1), j>>]

RECURSIVE ExpectedVisits(_)
ExpectedVisits(n) ==
    IF n = 0 THEN <<>>
    ELSE ExpectedVisits(n - 1) \o MethodsOfClasses(n, vm.images[n].first, vm.images[n].count)

\* C1: in the methods dump a visited method whose virtual address is null is
\* followed by no line, and one whose virtual address is not null is followed
\* by exactly one line: "0x" and eight hexadecimal digits whose value is the
\* address relative to the module base, a space, the type name of the class, a
\* dot, the method name and a line terminator; there is no other line; methods
\* are visited in assembly, class, method order; the file holds the lines.
C1_MethodLines ==
    gen.kind = <<"methods">> =>
        LET lines == Of({"yield"})
            visits == Of({"method"})
        IN /\ \A k \in 1..Len(events) :
                 /\ events[k].kind = "method" /\ events[k].va = 0 =>
                       (k = Len(events) \/ events[k + 1].kind # "yield")
                 /\ events[k].kind = "method" /\ events[k].va # 0 =>
                       /\ k < Len(events)
                       /\ events[k + 1].kind = "yield"
                       /\ LET line == events[k + 1].text
                              owner == events[k].text
                          IN /\ Len(line) = 9 + 1 + Len(owner) + 1
                             /\ line[1] = "0x"
                             /\ \A i \in 2..9 : line[i] \in HexDigits
                             /\ HexValue(SubSeq(line, 2, 9)) = events[k].va - vm.base
                             /\ line[10] = " "
                             /\ SubSeq(line, 11, 10 + Len(owner)) = owner
                             /\ line[Len(line)] = "\n"
                 /\ events[k].kind = "yield" => k > 1 /\ events[k - 1].kind = "method"
           /\ IsPrefix(Project(visits), ExpectedVisits(Len(vm.images)))
           /\ pc \in {"finish", "done"} => Project(visits) = ExpectedVisits(Len(vm.images))
           /\ file.data = [k \in 1..Len(lines) |-> lines[k].text]

C1_Witness ==
    /\ gen.kind = <<"methods">>
    /\ pc = "done"
    /\ \E k \in 1..Len(events) : events[k].kind = "method" /\ events[k].va = 0
    /\ \E k \in 1..Len(events) : events[k].kind = "method" /\ events[k].va # 0
    /\ Len(file.data) = 1

C7_FileReleasedOnEveryExit ==
    /\ pc \in {"done", "failed"} /\ file.opened => file.flushed /\ file.closed
    /\ Of({"ok"}) # <<>> =>
          /\ file.flushed /\ file.closed
          /\ file.data = [k \in 1..Len(Of({"yield"})) |-> Of({"yield"})[k].text]

DecDigits == {Digits[i] : i \in 1..10}

RECURSIVE DecValue(_)
DecValue(ds) ==
    IF ds = <<>> THEN 0 ELSE 10 * DecValue(SubSeq(ds, 1, Len(ds) - 1)) + DigitValue(ds[Len(ds)])

KindExtension(kind) == IF kind = "methods" THEN "ms" ELSE "cs"

\* C8: a build with neither directory nor name configured and a dump kind
\* selected opens <persistentDataPath>/<identifier>_<version>.<ext>, ext being ms
\* for the methods dump and cs for the classes dump, or, when the identifier or
\* the version is unavailable, <persistentDataPath>/<timestamp>.<ext>, and goes on
\* to the traversal whenever the host application is there and the file opens; a
\* configured directory or name, the empty string included, is the one in the
\* path, and its default is not evaluated.
C8_DefaultNaming ==
    [][(build'.started /\ ~build.started) =>
        LET h == vm.host
            ext == KindExtension(dumper.generator[1])
            path == file'.path
        IN /\ (dumper.directoryPath = <<>> /\ dumper.fileName = <<>> /\ dumper.generator # <<>>) =>
                 /\ file'.opened /\ h.identifier # <<>> /\ h.version # <<>> =>
                       path = h.dataPath \o <<"/">> \o h.identifier[1] \o <<"_">> \o h.version[1]
                                \o <<".", ext>>
                 /\ file'.opened /\ (h.identifier = <<>> \/ h.version = <<>>) =>
                       LET stamp == SubSeq(path, Len(h.dataPath) + 2, Len(path) - 2)
                       IN /\ path = h.dataPath \o <<"/">> \o stamp \o <<".", ext>>
                          /\ stamp # <<>>
                          /\ \A i \in 1..Len(stamp) : stamp[i] \in DecDigits
                          /\ DecValue(stamp) = h.now
                 /\ h.app /\ vm.disk => file'.opened /\ pc' = "loop"
           /\ dumper.directoryPath # <<>> =>
                 /\ "directoryPath" \notin build'.evaluated
                 /\ file'.opened => IsPrefix(dumper.directoryPath[1] \o <<"/">>, path)
           /\ dumper.fileName # <<>> =>
                 /\ "fileName" \notin build'.evaluated
                 /\ file'.opened =>
                       \E dir \in {h.dataPath} \cup vm.dirs, e \in {"cs", "ms", "dump"} :
                           path = dir \o <<"/">> \o dumper.fileName[1] \o <<".", e>>
      ]_vars

C8_Witness ==
    /\ pc = "loop"
    /\ dumper.directoryPath = <<>>
    /\ dumper.fileName = <<>>
    /\ dumper.generator = <<"methods">>
    /\ vm.host.identifier = <<>>
    /\ vm.host.version # <<>>
    /\ vm.host.now = 1234
    /\ file.opened
    /\ file.path = <<"/data", "/", "1", "2", "3", "4", ".", "ms">>

KindPairs == {<<<<>>, <<>>>>, <<<<"cs">>, <<"classes">>>>, <<<<"ms">>, <<"methods">>>>}

\* C10: the stored extension and generator are both unset or those of one dump
\* kind, the kind of the last classes() or methods() call that returned
\* normally; a directoryPath or fileName call, and a methods() call that fails,
\* change neither; the file build opens carries the extension of the kind whose
\* chunks are written to it.
C10_KindConsistent ==
    /\ [](/\ <<dumper.extension, dumper.generator>> \in KindPairs
          /\ lastCall.op \in {"classes", "methods"} /\ lastCall.ok =>
                dumper.generator = <<lastCall.op>>
          /\ file.opened /\ gen.kind # <<>> =>
                /\ file.path[Len(file.path)] = KindExtension(gen.kind[1])
                /\ \A k \in 1..Len(events) :
                      events[k].kind = "notice" =>
                          (events[k].text[1] = "Dumping methods from ") = (gen.kind = <<"methods">>))
    /\ [][/\ (pc = "idle" /\ pc' = "idle"
               /\ (lastCall'.op \in {"directoryPath", "fileName"} \/ ~lastCall'.ok)) =>
                 /\ dumper'.extension = dumper.extension
                 /\ dumper'.generator = dumper.generator
          /\ (dumper'.extension # dumper.extension \/ dumper'.generator # dumper.generator) =>
                 lastCall'.op \in {"classes", "methods"} /\ lastCall'.ok
         ]_vars

C10_Witness ==
    /\ pc = "idle"
    /\ lastCall = [op |-> "methods", ok |-> FALSE]
    /\ dumper.generator = <<"classes">>
    /\ dumper.extension = <<"cs">>
    /\ dumper.directoryPath # <<>>

====
